---- MODULE Spec2Model ----
(***************************************************************************)
(* A model of the raw-layer ingestion pipeline of src/extract_ingest.py:   *)
(* run_full_ingest and the three category flows it calls, the manifest     *)
(* helpers, the retrying readers and write_parquet_to_s3_atomic.           *)
(*                                                                         *)
(* Text (object keys, table names) is a sequence of one-character strings, *)
(* so that split, basename and lower are computed as the code computes     *)
(* them.  A source identifier is <<scheme, authority, path>>.              *)
(***************************************************************************)
EXTENDS Integers, Sequences, FiniteSets, TLC

\* ------------------------------------------------------------------ bounds

\* Orchestration runs (processes) in one behaviour.
MaxRuns == 2
\* The last instant of the clock, in ticks.
MaxClock == 2
\* Events of the environment in one behaviour, of any kind: an I/O failure,
\* a crash, a change of a source, a tick of the clock, an initial source item
\* whose content is not plain rows.
MaxEvents == 2
\* Events of the environment in one behaviour of overlapping runs.
MaxOverlapEvents == 1
\* Injected I/O failures in one behaviour.
MaxFaults == 2
\* Process crashes in one behaviour.
MaxCrashes == 1
\* Changes of a source item's content between runs in one behaviour.
MaxChanges == 1
\* Source items whose content is not plain rows in the initial state.
MaxOdd == 1
\* The clock's resolution: ticks in one second (the key's suffix is in seconds).
TicksPerSecond == 2
\* Seconds in one day, scaled down.
SecondsPerDay == 1

\* The longest column name given to normalize_column_name, in characters
\* (besides the named examples).
MaxColLen == 3
\* The most columns of a dataset given to hash_df_schema.
MaxCols == 2
\* The most padding tokens before, and after, the core of an email value.
MaxPad == 2

\* ------------------------------------------------------- program constants

\* stop_after_attempt(5) of the two retrying readers.
StopAfterAttempt == 5

\* ------------------------------------------------------------------- text

Min(a, b) == IF a < b THEN a ELSE b

Upper == <<"A","B","C","D","E","F","G","H","I","J","K","L","M",
           "N","O","P","Q","R","S","T","U","V","W","X","Y","Z">>
LowerAlpha == <<"a","b","c","d","e","f","g","h","i","j","k","l","m",
                "n","o","p","q","r","s","t","u","v","w","x","y","z">>

\* str.lower() on one character.
LowerChar(c) ==
    IF \E i \in 1..26 : Upper[i] = c
    THEN LowerAlpha[CHOOSE i \in 1..26 : Upper[i] = c]
    ELSE c

\* str.lower()
Lower(s) == [i \in 1..Len(s) |-> LowerChar(s[i])]

\* The positions of character ch in s.
Positions(s, ch) == {i \in 1..Len(s) : s[i] = ch}

Largest(S) == CHOOSE x \in S : \A y \in S : y <= x
Smallest(S) == CHOOSE x \in S : \A y \in S : x <= y

\* s.split(ch)[-1]: what follows the last ch, all of s when there is none.
SplitLast(s, ch) ==
    IF Positions(s, ch) = {} THEN s
    ELSE SubSeq(s, Largest(Positions(s, ch)) + 1, Len(s))

\* s.split(ch)[0]: what precedes the first ch, all of s when there is none.
SplitFirst(s, ch) ==
    IF Positions(s, ch) = {} THEN s
    ELSE SubSeq(s, 1, Smallest(Positions(s, ch)) - 1)

\* os.path.basename(key)
Basename(key) == SplitLast(key, "/")

\* obj['Key'].split('.')[-1].lower()
KeyExt(key) == Lower(SplitLast(key, "."))

\* os.path.basename(obj['Key']).split('.')[0]
KeyFilename(key) == SplitFirst(Basename(key), ".")

\* ------------------------------------------------------------ environment

CSV == <<"c","s","v">>
TXT == <<"t","x","t">>
JSON == <<"j","s","o","n">>

\* The five source categories of run_full_ingest, in call order.
Cats == <<"customers", "call_center_logs", "social_media", "agents", "web_forms">>
S3Cats == 1..3
SheetCat == 4
PgCat == 5

\* file_ext_filter of the three process_s3_prefix calls.
ExtFilter(c) == IF c = 3 THEN {JSON} ELSE {CSV}

SrcBucket == "your-bucket"

\* What list_objects_v2 returns under each prefix (it lists every key that
\* starts with the prefix, nested ones too).
Listing(c) ==
    CASE c = 1 -> << <<"c","/","a","/","x",".","c","s","v">>,
                     <<"c","/","b","/","x",".","C","S","V">> >>
      [] c = 2 -> << <<"l","/","n",".","t","x","t">> >>
      [] c = 3 -> << >>

\* f"s3://{obj['Bucket']}/{obj['Key']}"
S3Path(bucket, key) == <<"s3", bucket, key>>

SheetId == "YOUR_SHEET_ID"
SheetRange == <<"A","1",":","Z","9">>
\* f"google_sheets://{sheet_id}/{range_name}"
SheetIdentifier(sheet_id, range_name) == <<"google_sheets", sheet_id, range_name>>

PgHostDb == "host/db"
T1 == <<"t","1">>
T2 == <<"t","2">>
\* f"postgres://{creds['host']}/{creds['dbname']}/{table}"
PgIdentifier(hostdb, table) == <<"postgres", hostdb, table>>

\* The values POSTGRES_TABLES may have: unset, two tables, one table named
\* twice (line 449 splits and strips the value and removes no duplicate).
TableLists == { <<>>, <<T1, T2>>, <<T1, T1>> }

S3Items ==
    UNION { {S3Path(SrcBucket, Listing(c)[i]) : i \in 1..Len(Listing(c))} : c \in S3Cats }
SheetSource == SheetIdentifier(SheetId, SheetRange)
PgItems == {PgIdentifier(PgHostDb, T1), PgIdentifier(PgHostDb, T2)}
Items == S3Items \cup {SheetSource} \cup PgItems

\* What a read of a source item finds: rows, a header and no row, or content
\* the parser (or the server) rejects on every attempt.
Contents == {"rows", "empty", "malformed"}

Procs == 1..MaxRuns

\* ------------------------------------------------------------------ state

VARIABLES
    src,          \* the sources: item -> what a read of it finds
    manifestDoc,  \* the durable manifest document: identifier -> metadata
    manifestExists, \* whether the manifest document exists
    dataFiles,    \* the raw bucket's data files: output key -> the item written
    sidecars,     \* the raw bucket's sidecars: output key -> metadata
    tmpFiles,     \* the names of the files in LOCAL_TMP
    overwritten,  \* history: the output keys an upload has overwritten
    uploads,      \* history: the items whose data file, and the metadata whose
                  \* sidecar, have been written to the raw bucket
    now,          \* the clock, in ticks
    proc,         \* each run's local state
    faults,       \* injected I/O failures so far
    crashes,      \* crashes so far
    changes,      \* source changes so far
    step,         \* history: the read and the write made by the step just taken
    table_names,  \* POSTGRES_TABLES, as a list
    budget,       \* the events of the environment this behaviour may have
    calc          \* a call of one of the module's pure helpers: input and result

vars == <<src, manifestDoc, manifestExists, dataFiles, sidecars, tmpFiles,
          overwritten, uploads, now, proc, faults, crashes, changes, step, table_names,
          budget, calc>>

\* ------------------------------------------------------------- finite maps

Empty == <<>>

\* d[k] = v, as a new map.
Put(d, k, v) == [x \in DOMAIN d \cup {k} |-> IF x = k THEN v ELSE d[x]]

\* ------------------------------------------------------------------ clock

\* strftime('%Y%m%d%H%M%S'): the instant cut to the whole second.
Stamp(t) == t \div TicksPerSecond

\* strftime('%Y-%m-%d'): the instant cut to the day.
DatePart(t) == t \div (TicksPerSecond * SecondsPerDay)

\* The day of an ISO-8601 load time.
LoadDay(t) == t \div (TicksPerSecond * SecondsPerDay)

\* The day of a key's <YYYYMMDDHHMMSS> suffix.
StampDay(s) == s \div SecondsPerDay

\* f"{S3_RAW_PREFIX}/{source_name}/date={date_part}/{filename}_{stamp}.parquet"
OutKey(source_name, date_part, filename, stamp) ==
    <<source_name, date_part, filename, stamp>>

\* ------------------------------------------------------- manifest helpers

\* A variant: a read that raises is not caught as an empty manifest, the
\* document is used as it is.
ReadIgnoringFailure(doc, exists, ok) ==
    IF ~exists THEN Empty ELSE doc

\* read_processed_manifest: the document, {} when it does not exist, and {}
\* when the read raises.
ReadProcessedManifest(doc, exists, ok) ==
    IF ~ok THEN Empty
    ELSE IF ~exists THEN Empty
    ELSE doc

\* write_processed_manifest: overwrites the document; a failure is logged
\* and swallowed, and leaves the document as it was. ret is what the caller
\* gets: the function has no return statement and raises nothing.
WriteProcessedManifest(doc, exists, manifest, ok) ==
    IF ok THEN [doc |-> manifest, exists |-> TRUE, ret |-> "None"]
    ELSE [doc |-> doc, exists |-> exists, ret |-> "None"]

\* ---------------------------------------------------------------- readers

\* One call of the body of download_s3_to_dataframe.
DownloadOnce(s3_path, content, transient) ==
    IF s3_path[1] # "s3" THEN "raise"
    ELSE IF transient THEN "raise"
    ELSE IF KeyExt(s3_path[3]) \in {CSV, TXT}
         THEN (IF content = "malformed" THEN "raise" ELSE content)
    ELSE IF KeyExt(s3_path[3]) \in {JSON}
         THEN (IF content = "malformed" THEN "raise" ELSE content)
    ELSE "raise"

\* One call of the body of extract_postgres_table_to_df.
ExtractPgOnce(content, transient) ==
    IF transient THEN "raise"
    ELSE IF content = "malformed" THEN "raise"
    ELSE content

\* retry_if_exception_type(Exception): which outcomes of a call are retried.
Retried(outcome) == outcome = "raise"

\* A variant: the decorator makes one more call after the cap.
RetryingOnceMore(results) ==
    LET final == {n \in 1..StopAfterAttempt : ~Retried(results[n])}
    IN  IF final = {}
        THEN [attempts |-> StopAfterAttempt + 1, res |-> "raise"]
        ELSE [attempts |-> Smallest(final), res |-> results[Smallest(final)]]

\* tenacity's @retry(stop=stop_after_attempt(5), retry=retry_if_exception_type(
\* Exception)): results[n] is what the n-th call of the body does.
Retrying(results) ==
    LET final == {n \in 1..StopAfterAttempt : ~Retried(results[n])}
    IN  IF final = {}
        THEN [attempts |-> StopAfterAttempt, res |-> "raise"]
        ELSE [attempts |-> Smallest(final), res |-> results[Smallest(final)]]

\* download_s3_to_dataframe under its decorator; the first k calls meet a
\* transient failure.
DownloadS3ToDataframe(s3_path, content, k) ==
    Retrying([n \in 1..StopAfterAttempt |-> DownloadOnce(s3_path, content, n <= k)])

\* extract_postgres_table_to_df under its decorator.
ExtractPostgresTableToDf(content, k) ==
    Retrying([n \in 1..StopAfterAttempt |-> ExtractPgOnce(content, n <= k)])

\* What can fail in extract_google_sheet_to_df besides the content: reading
\* the service-account file (line 232), the API call (line 235).
SheetFailures == {"creds", "api"}

\* extract_google_sheet_to_df: no retry.
ExtractGoogleSheetToDf(content, failure) ==
    IF failure = "creds" THEN "raise"
    ELSE IF failure = "api" THEN "raise"
    ELSE IF content = "malformed" THEN "raise"
    ELSE content

\* ----------------------------------------------------------------- writer

WriteFailures == {"serialize_fail", "upload_fail", "sidecar_fail"}
WriteCrashes == {"crash_before_upload", "crash_after_upload", "crash_after_sidecar"}
WriteOutcomes == {"ok"} \cup WriteFailures \cup WriteCrashes

\* NamedTemporaryFile(delete=False, dir=LOCAL_TMP): a name not in use.
FreshTmp(tmp) == Smallest((0..Cardinality(tmp)) \ tmp)

\* Whether the call removes its scratch file: os.remove is the last statement
\* and is reached only when nothing before it raised.
RemovesTmp(outcome) == outcome = "ok"

\* write_parquet_to_s3_atomic.  st = [data, side, tmp, over, done]; the result adds
\* res ("return", "raise" or "crash") and the scratch file this call created.
WriteParquetToS3Atomic(st, key, item, metadata, outcome) ==
    LET name == FreshTmp(st.tmp)
        uploaded == outcome \notin {"crash_before_upload", "serialize_fail", "upload_fail"}
        sidecarPut == uploaded /\ outcome \notin {"crash_after_upload", "sidecar_fail"}
    IN  [ data |-> IF uploaded THEN Put(st.data, key, item) ELSE st.data,
          side |-> IF sidecarPut THEN Put(st.side, key, metadata) ELSE st.side,
          tmp  |-> IF RemovesTmp(outcome) THEN st.tmp ELSE st.tmp \cup {name},
          over |-> IF uploaded /\ key \in DOMAIN st.data
                   THEN st.over \cup {key} ELSE st.over,
          done |-> [data |-> IF uploaded THEN st.done.data \cup {item} ELSE st.done.data,
                    side |-> IF sidecarPut THEN st.done.side \cup {metadata}
                             ELSE st.done.side],
          name |-> name,
          key |-> key,
          uploaded |-> uploaded,
          sidecarPut |-> sidecarPut,
          res  |-> IF outcome = "ok" THEN "return"
                   ELSE IF outcome \in WriteFailures THEN "raise"
                   ELSE "crash" ]

\* ------------------------------------------------------------ run state

Ended == {"done", "aborted", "crashed"}
Active == {"begin", "loop"}

\* A step that made no read and no write. Otherwise: the run, the item read, what the
\* read found, the calls the retried read made and its result; the scratch
\* file the write created and how the write ended, the key it uploaded the
\* data file to (<<>> when it uploaded none) and whether it put the sidecar.
NoStep == [p |-> 0, item |-> <<>>, content |-> "none", attempts |-> 0, read |-> "none",
           tmp |-> -1, write |-> "none", load |-> "none", raised |-> "none",
           key |-> <<>>, sidecar |-> FALSE]

\* How a call of read_processed_manifest ended: the document was read, it
\* does not exist, the read raised (and was caught).
LoadOutcome(exists, ok) ==
    IF ~ok THEN "raise" ELSE IF ~exists THEN "missing" ELSE "read"

\* A step that read the manifest (load) or raised out of its function before
\* any item (raised: "list", "creds").
LoadStep(p, load, raised) == [NoStep EXCEPT !.p = p, !.load = load, !.raised = raised]

ReadStep(p, item, content, attempts, res) ==
    [NoStep EXCEPT !.p = p, !.item = item, !.content = content,
                   !.attempts = attempts, !.read = res]

WriteStep(st, w) ==
    [st EXCEPT !.tmp = w.name, !.write = w.res,
               !.key = IF w.uploaded THEN w.key ELSE <<>>,
               !.sidecar = w.sidecarPut]

IdleProc ==
    [ phase |-> "idle",        \* idle, begin, loop, done, aborted, crashed
      cat |-> 0,               \* the category being processed (index in Cats)
      objects |-> <<>>,        \* the candidates of the category, in order
      idx |-> 0,               \* the candidate the loop is at
      processed |-> Empty,     \* the in-memory manifest
      new_processed |-> FALSE,
      loaded |-> Empty,        \* history: the manifest as the category read it
      resolved |-> <<>>,       \* history: how each candidate was resolved
      commits |-> 0,           \* history: commits in this category
      flushCalls |-> 0,        \* history: write_processed_manifest calls in it
      overlapped |-> FALSE,    \* history: another run was under way when this one started
      flushRet |-> "none",     \* what the last write_processed_manifest call returned
      flushOk |-> TRUE,        \* history: whether that call wrote the document
      catLog |-> <<>>,         \* history: commits, flushCalls, resolved per finished category
      outKeys |-> Empty,       \* history: the output key of each item the run committed
      writes |-> [data |-> 0, side |-> 0, flush |-> 0] ] \* history: writes of the run

Store == [data |-> dataFiles, side |-> sidecars, tmp |-> tmpFiles, over |-> overwritten,
          done |-> uploads]

SetStore(w) ==
    /\ dataFiles' = w.data
    /\ sidecars' = w.side
    /\ tmpFiles' = w.tmp
    /\ overwritten' = w.over
    /\ uploads' = w.done

StoreUnchanged == UNCHANGED <<dataFiles, sidecars, tmpFiles, overwritten, uploads>>

Cost(ok) == IF ok THEN 0 ELSE 1

\* The items whose content is not plain rows.
Odd(f) == {i \in Items : f[i] # "rows"}

\* The events of the environment so far. A source change that makes an item
\* plain rows again is counted as a change, and the item no longer as odd.
Events == faults + crashes + changes + now + Cardinality(Odd(src))

\* The step stays within the bound on events.
Bounded == Events' <= budget

\* The events the bound still allows, and with them the caps of each kind.
Room == budget - Events
FaultCap == Min(MaxFaults, faults + Room)
CrashCap == Min(MaxCrashes, crashes + Room)
ClockCap == Min(MaxClock, now + Room)

OddInits(events) ==
    {f \in [Items -> Contents] : Cardinality(Odd(f)) <= Min(MaxOdd, events)}

\* No helper call.
NoCalc == [fn |-> "none"]

\* The state after construction, for a behaviour of at most `events` events.
InitWith(events) ==
    /\ budget = events
    /\ calc = NoCalc
    /\ src \in OddInits(events)
    /\ manifestDoc = Empty
    /\ manifestExists = FALSE
    /\ dataFiles = Empty
    /\ sidecars = Empty
    /\ tmpFiles = {}
    /\ overwritten = {}
    /\ uploads = [data |-> {}, side |-> {}]
    /\ now = 0
    /\ proc = [p \in Procs |-> IdleProc]
    /\ faults = 0
    /\ crashes = 0
    /\ changes = 0
    /\ step = NoStep
    /\ table_names \in TableLists

Init == InitWith(MaxEvents)

\* ------------------------------------------------------- the item chain

\* The metadata dict built for an item.
Metadata(source_name, item, load_time) ==
    [source |-> source_name, source_path |-> item, load_time_utc |-> load_time,
     record_count |-> 1]

\* A variant: an item's failure ends the loop.
AbortAfterItemFailure(idx, n) == n + 1

\* A variant: an empty dataframe ends the loop.
StopAfterEmpty(idx, n) == n + 1

\* Where the loop goes after the except clause has logged an item's failure.
AfterItemFailure(idx, n) == idx + 1

\* Where the loop goes after `continue` on an empty dataframe.
AfterEmpty(idx, n) == idx + 1

\* A variant: resolving a candidate also passes over the one after it.
ResolveAndPassOver(pr, outcome, next) ==
    [pr EXCEPT !.idx = next + 1, !.resolved = Append(@, outcome)]

\* The candidate is resolved as `outcome` and the loop moves to index `next`.
Resolve(pr, outcome, next) ==
    [pr EXCEPT !.idx = next, !.resolved = Append(@, outcome)]

\* A variant: the item is marked processed whether or not the write raised.
MarksProcessedAnyway(res) == res \in {"return", "raise"}

\* Whether the item is marked processed: lines 331-335 (376-377, 418-419)
\* reach the assignment only when write_parquet_to_s3_atomic has returned.
MarksProcessed(res) == res = "return"

\* Lines 304-335 (and their copies 397-419): from normalize_columns to
\* "mark processed", for a non-empty dataframe. t1, t2, t3 are the three
\* utcnow() reads (load_time, date_part, the key's suffix). The result is the
\* run's state after the item, with the writer's result in w.
Chain(pr, st, item, source_name, filename, t1, t2, t3, outcome) ==
    LET metadata == Metadata(source_name, item, t1)
        out_key == OutKey(source_name, DatePart(t2), filename, Stamp(t3))
        w == WriteParquetToS3Atomic(st, out_key, item, metadata, outcome)
        counted == [pr EXCEPT
                      !.writes.data = @ + (IF w.uploaded THEN 1 ELSE 0),
                      !.writes.side = @ + (IF w.sidecarPut THEN 1 ELSE 0)]
    IN  [ w |-> w,
          pr |-> IF MarksProcessed(w.res)
                 THEN [counted EXCEPT !.processed = Put(@, item, metadata),
                                      !.new_processed = TRUE,
                                      !.commits = @ + 1,
                                      !.outKeys = Put(@, item, out_key)]
                 ELSE counted ]

\* The category is over: its history is logged and the run moves on.
NextCategory(pr) ==
    [pr EXCEPT !.cat = @ + 1, !.phase = "begin",
               !.objects = <<>>, !.idx = 0, !.resolved = <<>>,
               !.catLog = Append(@, [commits |-> pr.commits, flushCalls |-> pr.flushCalls,
                                     resolved |-> pr.resolved])]

\* The three clock reads of one item, in order, from `from` on.
ClockReads(from) ==
    {t \in (from..ClockCap) \X (from..ClockCap) \X (from..ClockCap) :
        t[1] <= t[2] /\ t[2] <= t[3]}

\* --------------------------------------------------------------- actions

\* run_full_ingest starts: ensure_local_tmp, POSTGRES_TABLES is read at the
\* end of the run but is fixed for the run. With overlap = FALSE a run starts
\* only when no other run is under way.
StartRun(p, overlap) ==
    /\ proc[p].phase = "idle"
    /\ \A q \in Procs : q < p => proc[q].phase # "idle"
    /\ overlap \/ \A q \in Procs : proc[q].phase \notin Active
    /\ proc' = [proc EXCEPT ![p] =
          [IdleProc EXCEPT !.phase = "begin", !.cat = 1,
                           !.overlapped = \E q \in Procs : proc[q].phase \in Active]]
    /\ step' = NoStep
    /\ UNCHANGED <<table_names, budget, calc>>
    /\ UNCHANGED <<src, manifestDoc, manifestExists, dataFiles, sidecars, tmpFiles,
                   overwritten, uploads, now, faults, crashes, changes>>

\* A category's loop is entered with its candidates and the manifest it read.
EnterLoop(pr, objects, processed) ==
    [pr EXCEPT !.phase = "loop", !.objects = objects, !.idx = 1,
               !.processed = processed, !.new_processed = FALSE,
               !.loaded = processed, !.resolved = <<>>,
               !.commits = 0, !.flushCalls = 0]

\* process_s3_prefix, lines 282-285: list the prefix, read the manifest. A
\* failure of the listing is raised to run_full_ingest, which does not catch it.
S3Begin(p) ==
    LET pr == proc[p] IN
    /\ pr.phase = "begin"
    /\ pr.cat \in S3Cats
    /\ \E listOk \in BOOLEAN, readOk \in BOOLEAN :
          /\ listOk \/ readOk
          /\ faults + Cost(listOk) + Cost(readOk) <= FaultCap
          /\ faults' = faults + Cost(listOk) + Cost(readOk)
          /\ proc' = [proc EXCEPT ![p] =
                IF ~listOk THEN [pr EXCEPT !.phase = "aborted"]
                ELSE EnterLoop(pr, Listing(pr.cat),
                               ReadProcessedManifest(manifestDoc, manifestExists, readOk))]
          /\ step' = IF ~listOk THEN LoadStep(p, "none", "list")
                     ELSE LoadStep(p, LoadOutcome(manifestExists, readOk), "none")
    /\ UNCHANGED <<table_names, budget, calc>>
    /\ UNCHANGED <<src, manifestDoc, manifestExists, dataFiles, sidecars, tmpFiles,
                   overwritten, uploads, now, crashes, changes>>

\* The try body of a category loop once the read has answered rd, for the
\* candidate `item`: lines 299-337 of process_s3_prefix, 392-421 of
\* process_postgres_tables. f1 is the fault count after the read.
ItemTry(p, pr, item, source_name, filename, rd, f1) ==
    LET n == Len(pr.objects)
        read == ReadStep(p, item, src[item], rd.attempts, rd.res)
    IN
    \/ /\ rd.res = "raise"
       /\ proc' = [proc EXCEPT ![p] =
                      Resolve(pr, "failed", AfterItemFailure(pr.idx, n))]
       /\ faults' = f1
       /\ step' = read
       /\ StoreUnchanged
       /\ UNCHANGED <<now, crashes>>
    \/ /\ rd.res = "empty"
       /\ proc' = [proc EXCEPT ![p] = Resolve(pr, "empty", AfterEmpty(pr.idx, n))]
       /\ faults' = f1
       /\ step' = read
       /\ StoreUnchanged
       /\ UNCHANGED <<now, crashes>>
    \/ /\ rd.res = "rows"
       /\ \E t \in ClockReads(now), outcome \in WriteOutcomes :
            LET c == Chain(pr, Store, item, source_name, filename,
                           t[1], t[2], t[3], outcome)
            IN  /\ f1 + Cost(outcome \notin WriteFailures) <= FaultCap
                /\ crashes + Cost(outcome \notin WriteCrashes) <= CrashCap
                /\ faults' = f1 + Cost(outcome \notin WriteFailures)
                /\ crashes' = crashes + Cost(outcome \notin WriteCrashes)
                /\ SetStore(c.w)
                /\ now' = t[3]
                /\ step' = WriteStep(read, c.w)
                /\ proc' = [proc EXCEPT ![p] =
                      CASE c.w.res = "return" -> Resolve(c.pr, "committed", pr.idx + 1)
                        [] c.w.res = "raise" ->
                             Resolve(c.pr, "failed", AfterItemFailure(pr.idx, n))
                        [] c.w.res = "crash" -> [c.pr EXCEPT !.phase = "crashed"]]

\* Whether the extension filter lets the key through (lines 289-292).
PassesFilter(key, file_ext_filter) == KeyExt(key) \in file_ext_filter

\* A variant: no candidate is skipped as already processed.
NeverAlreadyProcessed(item, processed) == FALSE

\* Whether the candidate is skipped as already processed (lines 294, 346,
\* 387): membership in the in-memory manifest.
AlreadyProcessed(item, processed) == item \in DOMAIN processed

\* process_s3_prefix, one iteration of the loop of lines 287-337.
S3Item(p) ==
    LET pr == proc[p]
        key == pr.objects[pr.idx]
        s3_path == S3Path(SrcBucket, key)
    IN
    /\ pr.phase = "loop"
    /\ pr.cat \in S3Cats
    /\ pr.idx <= Len(pr.objects)
    /\ UNCHANGED <<src, manifestDoc, manifestExists, changes, table_names, budget, calc>>
    /\ IF ~PassesFilter(key, ExtFilter(pr.cat))
       THEN /\ proc' = [proc EXCEPT ![p] = Resolve(pr, "filtered", pr.idx + 1)]
            /\ StoreUnchanged
            /\ step' = NoStep
            /\ UNCHANGED <<now, faults, crashes>>
       ELSE IF AlreadyProcessed(s3_path, pr.processed)
       THEN /\ proc' = [proc EXCEPT ![p] = Resolve(pr, "skipped", pr.idx + 1)]
            /\ StoreUnchanged
            /\ step' = NoStep
            /\ UNCHANGED <<now, faults, crashes>>
       ELSE \E k \in 0..StopAfterAttempt :
              /\ faults + Cost(k = 0) <= FaultCap
              /\ ItemTry(p, pr, s3_path, Cats[pr.cat], KeyFilename(key),
                         DownloadS3ToDataframe(s3_path, src[s3_path], k),
                         faults + Cost(k = 0))

\* Whether the category flushes the manifest after its loop.
S3Flushes(new_processed) == new_processed

\* The flush after a loop: write_processed_manifest(processed), counted.
Flush(pr, m, ok) ==
    [pr EXCEPT !.flushCalls = @ + 1,
               !.flushRet = m.ret,
               !.flushOk = ok,
               !.writes.flush = @ + (IF ok THEN 1 ELSE 0)]

\* process_s3_prefix, lines 339-340, and the return to run_full_ingest.
S3End(p) ==
    LET pr == proc[p] IN
    /\ pr.phase = "loop"
    /\ pr.cat \in S3Cats
    /\ pr.idx > Len(pr.objects)
    /\ IF S3Flushes(pr.new_processed)
       THEN \E ok \in BOOLEAN :
              LET m == WriteProcessedManifest(manifestDoc, manifestExists, pr.processed, ok)
              IN  /\ faults + Cost(ok) <= FaultCap
                  /\ faults' = faults + Cost(ok)
                  /\ manifestDoc' = m.doc
                  /\ manifestExists' = m.exists
                  /\ proc' = [proc EXCEPT ![p] = NextCategory(Flush(pr, m, ok))]
       ELSE /\ proc' = [proc EXCEPT ![p] = NextCategory(pr)]
            /\ UNCHANGED <<faults, manifestDoc, manifestExists>>
    /\ StoreUnchanged
    /\ step' = NoStep
    /\ UNCHANGED <<table_names, budget, calc>>
    /\ UNCHANGED <<src, now, crashes, changes>>

\* What an exception raised inside process_google_sheet does to the run: the
\* function has no try, and neither has run_full_ingest.
SheetRaises(pr) == [pr EXCEPT !.phase = "aborted"]

\* process_google_sheet, lines 344-348: the manifest is read and the sheet is
\* skipped when its identifier is in it.
SheetBegin(p) ==
    LET pr == proc[p]
        identifier == SheetIdentifier(SheetId, SheetRange)
    IN
    /\ pr.phase = "begin"
    /\ pr.cat = SheetCat
    /\ \E readOk \in BOOLEAN :
        LET pr0 == EnterLoop(pr, <<SheetRange>>,
                             ReadProcessedManifest(manifestDoc, manifestExists, readOk))
        IN
        /\ faults + Cost(readOk) <= FaultCap
        /\ faults' = faults + Cost(readOk)
        /\ proc' = [proc EXCEPT ![p] =
              IF AlreadyProcessed(identifier, pr0.processed)
              THEN NextCategory(Resolve(pr0, "skipped", 2))
              ELSE pr0]
        /\ step' = LoadStep(p, LoadOutcome(manifestExists, readOk), "none")
    /\ StoreUnchanged
    /\ UNCHANGED <<src, manifestDoc, manifestExists, now, crashes, changes, table_names, budget, calc>>

\* How line 378 of process_google_sheet goes: the manifest is written, the
\* write fails, the process dies between lines 376 and 378.
SheetFlushes == {"ok", "fail", "crash"}

\* process_google_sheet, lines 350-378: the sheet is read, written and
\* recorded, and the manifest flushed. Nothing here is in a try.
SheetItem(p) ==
    LET pr == proc[p]
        identifier == SheetIdentifier(SheetId, SheetRange)
    IN
    /\ pr.phase = "loop"
    /\ pr.cat = SheetCat
    /\ pr.idx <= Len(pr.objects)
    /\ UNCHANGED <<src, changes, table_names, budget, calc>>
    /\ \E failure \in {"none"} \cup SheetFailures :
        LET rd == ExtractGoogleSheetToDf(src[identifier], failure)
            f1 == faults + Cost(failure = "none")
            read == [ReadStep(p, identifier, src[identifier], 1, rd)
                        EXCEPT !.raised = IF failure = "creds" THEN "creds" ELSE "none"]
        IN
        /\ f1 <= FaultCap
        /\ \/ /\ rd = "raise"
              /\ proc' = [proc EXCEPT ![p] = SheetRaises(Resolve(pr, "failed", 2))]
              /\ faults' = f1
              /\ step' = read
              /\ StoreUnchanged
              /\ UNCHANGED <<manifestDoc, manifestExists, now, crashes>>
           \/ /\ rd = "empty"
              /\ proc' = [proc EXCEPT ![p] = NextCategory(Resolve(pr, "empty", 2))]
              /\ faults' = f1
              /\ step' = read
              /\ StoreUnchanged
              /\ UNCHANGED <<manifestDoc, manifestExists, now, crashes>>
           \/ /\ rd = "rows"
              /\ \E t \in ClockReads(now), outcome \in WriteOutcomes, fl \in SheetFlushes :
                  LET c == Chain(pr, Store, identifier, Cats[SheetCat],
                                 <<"a","g","e","n","t","s">>, t[1], t[2], t[3], outcome)
                      returned == c.w.res = "return"
                      flushed == returned /\ fl # "crash"
                      ok == fl = "ok"
                      f2 == f1 + Cost(outcome \notin WriteFailures)
                               + (IF returned THEN Cost(fl # "fail") ELSE 0)
                      c2 == crashes + Cost(outcome \notin WriteCrashes)
                                    + (IF returned THEN Cost(fl # "crash") ELSE 0)
                      m == WriteProcessedManifest(manifestDoc, manifestExists,
                                                  c.pr.processed, ok)
                  IN  /\ returned \/ ok
                      /\ f2 <= FaultCap
                      /\ c2 <= CrashCap
                      /\ faults' = f2
                      /\ crashes' = c2
                      /\ SetStore(c.w)
                      /\ now' = t[3]
                      /\ step' = WriteStep(read, c.w)
                      /\ manifestDoc' = IF flushed THEN m.doc ELSE manifestDoc
                      /\ manifestExists' = IF flushed THEN m.exists ELSE manifestExists
                      /\ proc' = [proc EXCEPT ![p] =
                           CASE c.w.res = "return" /\ fl = "crash" ->
                                  [Resolve(c.pr, "committed", 2) EXCEPT !.phase = "crashed"]
                             [] c.w.res = "return" /\ fl # "crash" ->
                                  NextCategory(Flush(Resolve(c.pr, "committed", 2), m, ok))
                             [] c.w.res = "raise" ->
                                  SheetRaises(Resolve(c.pr, "failed", 2))
                             [] c.w.res = "crash" -> [c.pr EXCEPT !.phase = "crashed"]]

\* run_full_ingest, lines 447-455, and process_postgres_tables, lines 382-383:
\* with no table configured the run is over; otherwise the manifest and the
\* credentials are read. A failure of get_ssm_param_json is not caught.
PgBegin(p) ==
    LET pr == proc[p] IN
    /\ pr.phase = "begin"
    /\ pr.cat = PgCat
    /\ IF table_names = <<>>
       THEN /\ proc' = [proc EXCEPT ![p] = [pr EXCEPT !.phase = "done"]]
            /\ step' = NoStep
            /\ UNCHANGED faults
       ELSE \E readOk \in BOOLEAN, credsOk \in BOOLEAN :
              /\ faults + Cost(readOk) + Cost(credsOk) <= FaultCap
              /\ faults' = faults + Cost(readOk) + Cost(credsOk)
              /\ proc' = [proc EXCEPT ![p] =
                    IF ~credsOk THEN [pr EXCEPT !.phase = "aborted"]
                    ELSE EnterLoop(pr, table_names,
                                   ReadProcessedManifest(manifestDoc, manifestExists, readOk))]
              /\ step' = LoadStep(p, LoadOutcome(manifestExists, readOk),
                                  IF credsOk THEN "none" ELSE "creds")
    /\ UNCHANGED <<table_names, budget, calc>>
    /\ UNCHANGED <<src, manifestDoc, manifestExists, dataFiles, sidecars, tmpFiles,
                   overwritten, uploads, now, crashes, changes>>

\* process_postgres_tables, one iteration of the loop of lines 385-421.
PgItem(p) ==
    LET pr == proc[p]
        table == pr.objects[pr.idx]
        identifier == PgIdentifier(PgHostDb, table)
    IN
    /\ pr.phase = "loop"
    /\ pr.cat = PgCat
    /\ pr.idx <= Len(pr.objects)
    /\ UNCHANGED <<src, manifestDoc, manifestExists, changes, table_names, budget, calc>>
    /\ IF AlreadyProcessed(identifier, pr.processed)
       THEN /\ proc' = [proc EXCEPT ![p] = Resolve(pr, "skipped", pr.idx + 1)]
            /\ StoreUnchanged
            /\ step' = NoStep
            /\ UNCHANGED <<now, faults, crashes>>
       ELSE \E k \in 0..StopAfterAttempt :
              /\ faults + Cost(k = 0) <= FaultCap
              /\ ItemTry(p, pr, identifier, Cats[PgCat], table,
                         ExtractPostgresTableToDf(src[identifier], k),
                         faults + Cost(k = 0))

\* Whether process_postgres_tables flushes the manifest after its loop:
\* line 423 is unconditional.
PgFlushes(commits) == TRUE

\* process_postgres_tables, line 423, and the end of run_full_ingest.
PgEnd(p) ==
    LET pr == proc[p] IN
    /\ pr.phase = "loop"
    /\ pr.cat = PgCat
    /\ pr.idx > Len(pr.objects)
    /\ IF PgFlushes(pr.commits)
       THEN \E ok \in BOOLEAN :
              LET m == WriteProcessedManifest(manifestDoc, manifestExists, pr.processed, ok)
              IN  /\ faults + Cost(ok) <= FaultCap
                  /\ faults' = faults + Cost(ok)
                  /\ manifestDoc' = m.doc
                  /\ manifestExists' = m.exists
                  /\ proc' = [proc EXCEPT ![p] =
                                [NextCategory(Flush(pr, m, ok)) EXCEPT !.phase = "done"]]
       ELSE /\ proc' = [proc EXCEPT ![p] = [NextCategory(pr) EXCEPT !.phase = "done"]]
            /\ UNCHANGED <<faults, manifestDoc, manifestExists>>
    /\ StoreUnchanged
    /\ step' = NoStep
    /\ UNCHANGED <<table_names, budget, calc>>
    /\ UNCHANGED <<src, now, crashes, changes>>

\* The process dies between two steps of a run.
Crash(p) ==
    /\ proc[p].phase \in Active
    /\ crashes < CrashCap
    /\ crashes' = crashes + 1
    /\ proc' = [proc EXCEPT ![p].phase = "crashed"]
    /\ step' = NoStep
    /\ UNCHANGED <<table_names, budget, calc>>
    /\ UNCHANGED <<src, manifestDoc, manifestExists, dataFiles, sidecars, tmpFiles,
                   overwritten, uploads, now, faults, changes>>

\* Between two runs the content of a source item changes.
SourceChange(i, c) ==
    /\ \A q \in Procs : proc[q].phase \notin Active
    /\ \E q \in Procs : proc[q].phase \in Ended
    /\ \E q \in Procs : proc[q].phase = "idle"
    /\ changes < MaxChanges
    /\ src[i] # c
    /\ src' = [src EXCEPT ![i] = c]
    /\ changes' = changes + 1
    /\ step' = NoStep
    /\ UNCHANGED <<table_names, budget, calc>>
    /\ UNCHANGED <<manifestDoc, manifestExists, dataFiles, sidecars, tmpFiles,
                   overwritten, uploads, now, proc, faults, crashes>>

Next ==
    \/ \E p \in Procs : StartRun(p, FALSE)
    \/ \E p \in Procs : S3Begin(p) /\ Bounded
    \/ \E p \in Procs : S3Item(p) /\ Bounded
    \/ \E p \in Procs : S3End(p) /\ Bounded
    \/ \E p \in Procs : SheetBegin(p) /\ Bounded
    \/ \E p \in Procs : SheetItem(p) /\ Bounded
    \/ \E p \in Procs : PgBegin(p) /\ Bounded
    \/ \E p \in Procs : PgItem(p) /\ Bounded
    \/ \E p \in Procs : PgEnd(p) /\ Bounded
    \/ \E p \in Procs : Crash(p) /\ Bounded
    \/ \E i \in Items, c \in Contents : SourceChange(i, c) /\ Bounded

Spec == Init /\ [][Next]_vars

\* The same program when the scheduler may start a run while another is
\* under way: nothing in run_full_ingest takes a lock.
NextOverlap ==
    \/ \E p \in Procs : StartRun(p, TRUE)
    \/ \E p \in Procs : S3Begin(p) /\ Bounded
    \/ \E p \in Procs : S3Item(p) /\ Bounded
    \/ \E p \in Procs : S3End(p) /\ Bounded
    \/ \E p \in Procs : SheetBegin(p) /\ Bounded
    \/ \E p \in Procs : SheetItem(p) /\ Bounded
    \/ \E p \in Procs : PgBegin(p) /\ Bounded
    \/ \E p \in Procs : PgItem(p) /\ Bounded
    \/ \E p \in Procs : PgEnd(p) /\ Bounded
    \/ \E p \in Procs : Crash(p) /\ Bounded
    \/ \E i \in Items, c \in Contents : SourceChange(i, c) /\ Bounded

InitOverlap == InitWith(MaxOverlapEvents)

SpecOverlap == InitOverlap /\ [][NextOverlap]_vars

\* The sequential program as it is scheduled: the two for loops are plain
\* Python loops, so a loop that can take its next iteration, or leave for
\* the flush, does so unless the process dies.

\* A run is inside one of the two for loops, or between a loop and its flush.
Looping(p) == proc[p].phase = "loop" /\ proc[p].cat \in S3Cats \cup {PgCat}

\* A run is at a candidate of its loop.
AtItem(p) == Looping(p) /\ proc[p].idx <= Len(proc[p].objects)

\* The steps of S3Item and PgItem among those of Next: a run at a candidate
\* moves on and is not dead afterwards.
ItemAdvance ==
    \E p \in Procs : AtItem(p) /\ proc'[p] # proc[p] /\ proc'[p].phase # "crashed"

\* Weak fairness of the iterations, written out (WF_vars(A) is
\* []<>~ENABLED <<A>>_vars \/ []<><<A>>_vars). An iteration is enabled exactly
\* when some run is at a candidate: the iteration with no failure and no
\* clock tick is always possible.
ItemFairness == []<>(\A p \in Procs : ~AtItem(p)) \/ []<><<ItemAdvance>>_vars

\* The step after a loop: the flush decision and the end of the category.
EndNext == \E p \in Procs : (S3End(p) \/ PgEnd(p)) /\ Bounded

SpecFair == Init /\ [][Next]_vars /\ ItemFairness /\ WF_vars(EndNext)

\* ------------------------------------------------------- column names

\* What str.strip() and the regex class \\s take for whitespace.
Whitespace == {" ", "\n", "\t"}

\* str.strip()
Strip(s) ==
    LET keep == {i \in 1..Len(s) : s[i] \notin Whitespace}
    IN  IF keep = {} THEN <<>> ELSE SubSeq(s, Smallest(keep), Largest(keep))

\* str.replace(a, b) for one-character a and b.
ReplaceChar(s, a, b) == [i \in 1..Len(s) |-> IF s[i] = a THEN b ELSE s[i]]

RECURSIVE DropRun(_, _)
\* s without its longest prefix of characters of the class.
DropRun(s, class) ==
    IF s # <<>> /\ Head(s) \in class THEN DropRun(Tail(s), class) ELSE s

RECURSIVE SubRuns(_, _, _)
\* re.sub(r"[class]+", repl, s): every maximal run of characters of the class
\* becomes one repl.
SubRuns(s, class, repl) ==
    IF s = <<>> THEN <<>>
    ELSE IF Head(s) \in class
         THEN repl \o SubRuns(DropRun(Tail(s), class), class, repl)
         ELSE <<Head(s)>> \o SubRuns(Tail(s), class, repl)

\* The class [\\s/\\\\.-] of line 96.
Separators == Whitespace \cup {"/", "\\", ".", "-"}

Digits == {"0", "1", "2", "3", "4", "5", "6", "7", "8", "9"}

\* The class [0-9a-zA-Z_] of line 97.
WordChars ==
    Digits \cup {Upper[i] : i \in 1..26} \cup {LowerAlpha[i] : i \in 1..26} \cup {"_"}

IsWordChar(c) == c \in WordChars

\* A variant: the last substitution, which collapses underscores, is missing.
NormalizeWithoutCollapse(col) ==
    LET stripped == Strip(col)
        spaced == ReplaceChar(stripped, "\n", " ")
        separated == SubRuns(spaced, Separators, <<"_">>)
        cleaned == SelectSeq(separated, IsWordChar)
    IN  Lower(cleaned)

\* normalize_column_name
NormalizeColumnName(col) ==
    LET stripped == Strip(col)
        spaced == ReplaceChar(stripped, "\n", " ")
        separated == SubRuns(spaced, Separators, <<"_">>)
        cleaned == SelectSeq(separated, IsWordChar)
        lowered == Lower(cleaned)
    IN  SubRuns(lowered, {"_"}, <<"_">>)

\* ------------------------------------------------------- schema hash

RECURSIVE Join(_, _)
\* sep.join(items)
Join(items, sep) ==
    IF items = <<>> THEN <<>>
    ELSE IF Len(items) = 1 THEN items[1]
    ELSE items[1] \o sep \o Join(Tail(items), sep)

\* hashlib.md5(text.encode()).hexdigest(): the digest of a text, taken as
\* free of collisions.
Md5(text) == <<"md5", text>>

\* The f"{c}:{str(dtype)}" items of a dataframe, in column order.
SchemaItems(df) ==
    [i \in 1..Len(df.columns) |-> df.columns[i] \o <<":">> \o df.dtypes[i]]

\* A variant: the row values go into the hash too.
HashWithRows(df) == Md5(Join(SchemaItems(df), <<"|">>) \o <<"|", df.rows>>)

\* hash_df_schema
HashDfSchema(df) == Md5(Join(SchemaItems(df), <<"|">>))

\* ------------------------------------------------------------- emails

\* Python values of a cell: a str with its text, None, a float (NaN).
Str(text) == [kind |-> "str", text |-> text]
None == [kind |-> "NoneType", text |-> <<>>]
NaN == [kind |-> "float", text |-> <<>>]

RECURSIVE Replace(_, _, _)
\* str.replace(old, new): every occurrence, left to right, not overlapping.
Replace(s, old, new) ==
    IF Len(s) < Len(old) THEN s
    ELSE IF SubSeq(s, 1, Len(old)) = old
         THEN new \o Replace(SubSeq(s, Len(old) + 1, Len(s)), old, new)
         ELSE <<Head(s)>> \o Replace(Tail(s), old, new)

Letters == {Upper[i] : i \in 1..26} \cup {LowerAlpha[i] : i \in 1..26}

\* The classes [A-Za-z0-9._%+-] and [A-Za-z0-9.-] of EMAIL_REGEX.
LocalChars == Letters \cup Digits \cup {".", "_", "%", "+", "-"}
DomainChars == Letters \cup Digits \cup {".", "-"}

\* Every character of s from position i to position j is of the class.
AllIn(s, i, j, class) == \A k \in i..j : s[k] \in class

\* The whole of s is [A-Za-z0-9._%+-]+@[A-Za-z0-9.-]+\\.[A-Za-z]{2,}
FullEmail(s) ==
    \E i \in 2..Len(s), j \in 4..Len(s) :
        /\ s[i] = "@" /\ AllIn(s, 1, i - 1, LocalChars)
        /\ j > i + 1 /\ AllIn(s, i + 1, j - 1, DomainChars)
        /\ s[j] = "." /\ Len(s) - j >= 2 /\ AllIn(s, j + 1, Len(s), Letters)

\* EMAIL_REGEX.match(s): ^ at the start, $ at the end or before a newline
\* that ends the string.
EmailRegexMatch(s) ==
    \/ FullEmail(s)
    \/ s # <<>> /\ s[Len(s)] = "\n" /\ FullEmail(SubSeq(s, 1, Len(s) - 1))

\* The text "\\s+" of line 120: a backslash, an s, a plus.
BackslashSPlus == <<"\\", "s", "+">>

\* clean_email
CleanEmail(email) ==
    IF email.kind # "str" THEN None
    ELSE LET lowered == Lower(Strip(email.text))
             at1 == Replace(lowered, <<"(","a","t",")">>, <<"@">>)
             at2 == Replace(at1, <<"[","a","t","]">>, <<"@">>)
             at3 == Replace(at2, <<" ","a","t"," ">>, <<"@">>)
             unspaced == Replace(at3, BackslashSPlus, <<>>)
         IN  IF EmailRegexMatch(unspaced) THEN Str(unspaced) ELSE None

EmailName == <<"e","m","a","i","l">>
EmailRawName == <<"e","m","a","i","l","_","r","a","w">>

\* normalize_columns
NormalizeColumns(df) ==
    [df EXCEPT !.columns = [i \in 1..Len(df.columns) |-> NormalizeColumnName(df.columns[i])]]

\* Lines 305-310 (355-358, 397-400): the columns are normalized and, when
\* there is an email column, it is copied to email_raw and cleaned. A
\* dataframe is its column names and, in the same order, its columns. The
\* dataframes here have one column.
EmailHygiene(df) ==
    LET n == NormalizeColumns(df) IN
    IF n.columns[1] = EmailName
    THEN [columns |-> <<EmailName, EmailRawName>>,
          data |-> << [r \in 1..Len(n.data[1]) |-> CleanEmail(n.data[1][r])], n.data[1] >>]
    ELSE n

\* ------------------------------------------------------ the helper calls

\* The sequences over S of length at most n.
SeqsUpTo(S, n) == UNION {[1..k -> S] : k \in 0..n}

\* The characters column names are drawn from: a capital, a small letter, a
\* digit, the underscore, whitespace, separators, a symbol, a non-ASCII letter.
ColumnChars == {"C", "d", "1", "_", " ", "\n", "-", ".", "$", "é"}

CustomerID == <<"C","u","s","t","o","m","e","r"," ","I","D">>

\* The column names normalize_column_name is called with.
ColumnNames == SeqsUpTo(ColumnChars, MaxColLen) \cup {CustomerID}

\* A call of normalize_column_name that has not been made yet.
NormalizeOf(s) == [fn |-> "normalize_column_name", in |-> s, outs |-> <<>>]

\* Canonical column names: what normalize_column_name makes of raw names.
CanonNames ==
    {NormalizeColumnName(s) : s \in {<<"A">>, <<"b">>, <<"A", " ", "b">>}}

\* str(dtype) of a column.
Dtypes == {<<"i","n","t","6","4">>, <<"o","b","j","e","c","t">>}

\* The row values of a dataframe, as a label.
RowSets == {"r1", "r2"}

\* The dataframes hash_df_schema is called with.
Frames ==
    UNION { {[columns |-> c, dtypes |-> t, rows |-> r] :
                c \in [1..k -> CanonNames], t \in [1..k -> Dtypes], r \in RowSets}
            : k \in 1..MaxCols }

\* A call of hash_df_schema on each of two dataframes, not made yet.
HashOf(a, b) ==
    [fn |-> "hash_df_schema", a |-> a, b |-> b, done |-> FALSE, ha |-> <<>>, hb |-> <<>>]

\* What surrounds the core of an email value: a blank, a newline, the text
\* "\\s+".
PadTokens == {<<" ">>, <<"\n">>, BackslashSPlus}

RECURSIVE Concat(_)
\* The texts of a sequence, one after the other.
Concat(texts) == IF texts = <<>> THEN <<>> ELSE Head(texts) \o Concat(Tail(texts))

Pads == {Concat(t) : t \in SeqsUpTo(PadTokens, MaxPad)}

NotAnEmail == <<"n","o","t","-","a","n","-","e","m","a","i","l">>

EmailCores ==
    { <<"a","@","b",".","c","c">>, <<"A","@","b",".","C","c">>,
      <<"a","(","a","t",")","b",".","c","c">>, <<"a"," ","A","T"," ","b",".","c","c">>,
      <<"a","@","b",".","c">>, <<"a","@","b">>, NotAnEmail }

\* The cells of an email column.
EmailValues ==
    {Str(pre \o core \o post) : pre \in Pads, core \in EmailCores, post \in Pads}
    \cup {None, NaN}

\* The raw names of the column: two that normalize to "email", one that
\* does not.
EmailHeaders == { <<"E","m","a","i","l"," ">>, <<"e","m","a","i","l">>, <<"i","d">> }

\* The dataframes the email step is applied to: one column of two rows.
EmailFrames ==
    {[columns |-> <<h>>, data |-> << <<v, w>> >>] :
        h \in EmailHeaders, v \in EmailValues, w \in {None, Str(<<"A","@","b",".","c","c">>)}}

\* The email step on a dataframe, not made yet.
HygieneOf(df) == [fn |-> "email_hygiene", df |-> df, done |-> FALSE, out |-> df]

\* The state before a helper is called.
InitHelpers ==
    /\ budget = 0
    /\ \/ \E s \in ColumnNames : calc = NormalizeOf(s)
       \/ \E a \in Frames, b \in Frames : calc = HashOf(a, b)
       \/ \E df \in EmailFrames : calc = HygieneOf(df)
    /\ src = [i \in Items |-> "rows"]
    /\ manifestDoc = Empty
    /\ manifestExists = FALSE
    /\ dataFiles = Empty
    /\ sidecars = Empty
    /\ tmpFiles = {}
    /\ overwritten = {}
    /\ uploads = [data |-> {}, side |-> {}]
    /\ now = 0
    /\ proc = [p \in Procs |-> IdleProc]
    /\ faults = 0
    /\ crashes = 0
    /\ changes = 0
    /\ step = NoStep
    /\ table_names = <<>>

IngestUnchanged ==
    UNCHANGED <<src, manifestDoc, manifestExists, dataFiles, sidecars, tmpFiles,
                overwritten, uploads, now, proc, faults, crashes, changes, step,
                table_names, budget>>

\* normalize_column_name is called on a name, and then on its own result.
NormalizeCall ==
    /\ calc.fn = "normalize_column_name"
    /\ Len(calc.outs) < 2
    /\ calc' = [calc EXCEPT !.outs =
                   Append(@, NormalizeColumnName(IF @ = <<>> THEN calc.in ELSE @[Len(@)]))]
    /\ IngestUnchanged

\* hash_df_schema is called on two dataframes.
HashCall ==
    /\ calc.fn = "hash_df_schema"
    /\ ~calc.done
    /\ calc' = [calc EXCEPT !.done = TRUE,
                            !.ha = HashDfSchema(calc.a),
                            !.hb = HashDfSchema(calc.b)]
    /\ IngestUnchanged

\* The email step of a category's chain is applied to a dataframe.
HygieneCall ==
    /\ calc.fn = "email_hygiene"
    /\ ~calc.done
    /\ calc' = [calc EXCEPT !.done = TRUE, !.out = EmailHygiene(calc.df)]
    /\ IngestUnchanged

NextHelpers ==
    \/ NormalizeCall
    \/ HashCall
    \/ HygieneCall

SpecHelpers == InitHelpers /\ [][NextHelpers]_vars

\* -------------------------------------------- downstream load (load.py)

\* The most rows of a dataframe handed to dataframe_to_supabase.
MaxRows == 4

\* The largest chunk_size of a call.
MaxChunk == 3

\* The dataframes of the calls: a number of rows, of columns.
LoadFrames == [rows : 0..MaxRows, cols : 0..1]

\* DataFrame.empty: an axis of length 0.
DfEmpty(df) == df.rows = 0 \/ df.cols = 0

\* df.to_dict(orient="records"): one record per row, in row order.
ToRecords(df) == [r \in 1..df.rows |-> r]

\* records[a:b], for 0 <= a <= b.
Slice(records, a, b) == SubSeq(records, a + 1, Min(b, Len(records)))

\* What supabase.table(table_name).insert(batch).execute() does: it returns
\* a response with no error, a response that reports an error, or it raises
\* (the request fails, or the client raises the error of the API).
Executes == {"inserted", "error", "raises"}

\* A call dataframe_to_supabase(df, table_name, supabase, chunk_size).
LoadOf(df, chunk_size) ==
    [fn |-> "dataframe_to_supabase", df |-> df, chunk_size |-> chunk_size,
     phase |-> "called", records |-> <<>>, i |-> 0, sent |-> <<>>, responses |-> <<>>]

\* The state before dataframe_to_supabase is called.
InitLoad ==
    /\ budget = 0
    /\ \E df \in LoadFrames, chunk_size \in 1..MaxChunk : calc = LoadOf(df, chunk_size)
    /\ src = [i \in Items |-> "rows"]
    /\ manifestDoc = Empty
    /\ manifestExists = FALSE
    /\ dataFiles = Empty
    /\ sidecars = Empty
    /\ tmpFiles = {}
    /\ overwritten = {}
    /\ uploads = [data |-> {}, side |-> {}]
    /\ now = 0
    /\ proc = [p \in Procs |-> IdleProc]
    /\ faults = 0
    /\ crashes = 0
    /\ changes = 0
    /\ step = NoStep
    /\ table_names = <<>>

\* Lines 32-43: an empty dataframe returns at once; otherwise the records
\* are taken and the loop starts at 0.
LoadBegin ==
    /\ calc.fn = "dataframe_to_supabase"
    /\ calc.phase = "called"
    /\ calc' = IF DfEmpty(calc.df) THEN [calc EXCEPT !.phase = "returned"]
               ELSE [calc EXCEPT !.phase = "loop", !.records = ToRecords(calc.df), !.i = 0]
    /\ IngestUnchanged

\* Lines 46-54, one iteration of for i in range(0, len(records), chunk_size):
\* the batch is sent; an error in the response is printed; an exception
\* leaves the function, which has no try.
LoadBatch ==
    /\ calc.fn = "dataframe_to_supabase"
    /\ calc.phase = "loop"
    /\ calc.i < Len(calc.records)
    /\ \E response \in Executes :
          calc' = [calc EXCEPT
                     !.sent = Append(@, Slice(calc.records, calc.i, calc.i + calc.chunk_size)),
                     !.responses = Append(@, response),
                     !.i = IF response = "raises" THEN @ ELSE @ + calc.chunk_size,
                     !.phase = IF response = "raises" THEN "raised" ELSE @]
    /\ IngestUnchanged

\* Line 56: the range is exhausted and the function returns.
LoadEnd ==
    /\ calc.fn = "dataframe_to_supabase"
    /\ calc.phase = "loop"
    /\ calc.i >= Len(calc.records)
    /\ calc' = [calc EXCEPT !.phase = "returned"]
    /\ IngestUnchanged

NextLoad ==
    \/ LoadBegin
    \/ LoadBatch
    \/ LoadEnd

SpecLoad == InitLoad /\ [][NextLoad]_vars

\* ---------------------------------------------------------------- claims

\* The source item a category's candidate stands for.
ItemOf(cat, candidate) ==
    IF cat \in S3Cats THEN S3Path(SrcBucket, candidate)
    ELSE IF cat = SheetCat THEN SheetIdentifier(SheetId, candidate)
    ELSE PgIdentifier(PgHostDb, candidate)

\* The source items a run of run_full_ingest reads: the listed objects that
\* pass their category's filter, the sheet, the configured tables.
SourceItems ==
    UNION { {S3Path(SrcBucket, Listing(c)[i]) :
                i \in {j \in 1..Len(Listing(c)) : PassesFilter(Listing(c)[j], ExtFilter(c))}}
            : c \in S3Cats }
    \cup {SheetSource}
    \cup {PgIdentifier(PgHostDb, table_names[i]) : i \in 1..Len(table_names)}

\* The output artifacts of an item in the raw bucket: a data file of the item
\* with the item's sidecar beside it.
Artifacts(item) ==
    {k \in DOMAIN dataFiles :
        /\ dataFiles[k] = item
        /\ k \in DOMAIN sidecars
        /\ sidecars[k].source_path = item}

NoWrites == [data |-> 0, side |-> 0, flush |-> 0]

\* The loop of run p's category has resolved its last candidate.
LoopOver(p) == proc[p].phase = "loop" /\ proc[p].idx > Len(proc[p].objects)

\* Candidate i of run p's category was resolved as failed.
FailedAt(p, i) == i <= Len(proc[p].resolved) /\ proc[p].resolved[i] = "failed"

\* The item has both files in the raw bucket's history and md is its sidecar.
DurablyWritten(item, md) == item \in uploads.data /\ md \in uploads.side

\* C1: two runs in sequence over unchanged sources, with no I/O failure: every
\* source item ends with exactly one artifact and one manifest entry, and the
\* second run writes nothing (no data file, no sidecar, no manifest flush).
\* Stated for the runs in which no output key was written twice, so that the
\* key collisions of C7 are not what decides it.
C1_Idempotent ==
    ( /\ proc[1].phase = "done" /\ proc[2].phase = "done"
      /\ faults = 0 /\ crashes = 0 /\ changes = 0 /\ Odd(src) = {}
      /\ overwritten = {} )
    => /\ \A item \in SourceItems :
            Cardinality(Artifacts(item)) = 1 /\ item \in DOMAIN manifestDoc
       /\ proc[2].writes = NoWrites
       /\ \A c \in 1..Len(proc[2].catLog) : proc[2].catLog[c].flushCalls = 0

\* C2, in every state: an identifier is in a manifest, in memory or durable,
\* only with the metadata whose sidecar, and the item whose data file, have
\* been written.
C2_ManifestAfterWrite ==
    /\ \A p \in Procs : \A id \in DOMAIN proc[p].processed :
          DurablyWritten(id, proc[p].processed[id])
    /\ \A id \in DOMAIN manifestDoc : DurablyWritten(id, manifestDoc[id])

\* C2, in every step: a read or a write that fails, or a crash in the write,
\* leaves the item out of the manifest and every manifest as it was.
C2_FailureLeavesManifest ==
    (step'.p # 0 /\ (step'.read = "raise" \/ step'.write \in {"raise", "crash"}))
    => /\ step'.item \notin DOMAIN proc'[step'.p].processed
       /\ proc'[step'.p].processed = proc[step'.p].processed
       /\ manifestDoc' = manifestDoc

\* C2: a source identifier is in the manifest only if both its data file and
\* its sidecar have been written; a failure in an item's chain leaves the
\* manifest without the item and its other entries unchanged.
C2_CommitAfterDurable == []C2_ManifestAfterWrite /\ [][C2_FailureLeavesManifest]_vars

\* C2's case: a write has failed after its data file was uploaded, in a run
\* whose manifest holds other items.
C2_Witness ==
    /\ step.write = "raise"
    /\ step.item \in uploads.data
    /\ step.item \notin DOMAIN proc[step.p].processed
    /\ proc[step.p].processed # Empty

\* C3: when the loop of process_s3_prefix or process_postgres_tables is over,
\* every candidate that did not fail itself, is not empty and was not yet in
\* the manifest, is written and recorded, wherever the failing items are.
C3_PerItemIsolation ==
    \A p \in Procs :
        (LoopOver(p) /\ proc[p].cat \in S3Cats \cup {PgCat}) =>
            \A i \in 1..Len(proc[p].objects) :
                LET item == ItemOf(proc[p].cat, proc[p].objects[i]) IN
                ( /\ proc[p].cat \in S3Cats =>
                        PassesFilter(proc[p].objects[i], ExtFilter(proc[p].cat))
                  /\ item \notin DOMAIN proc[p].loaded
                  /\ src[item] = "rows"
                  /\ ~FailedAt(p, i) )
                => /\ item \in DOMAIN proc[p].processed
                   /\ DurablyWritten(item, proc[p].processed[item])

\* C3's case: the first of two tables failed and the second was committed.
C3_Witness ==
    \E p \in Procs :
        /\ LoopOver(p)
        /\ proc[p].cat = PgCat
        /\ proc[p].resolved = <<"failed", "committed">>
        /\ PgIdentifier(PgHostDb, T2) \in DOMAIN proc[p].processed

\* C4: no failure inside a category's per-item chain ends the run: a run is
\* never aborted with a candidate of its category resolved as failed.
C4_FailureStaysInCategory ==
    \A p \in Procs :
        proc[p].phase = "aborted" =>
            \A i \in 1..Len(proc[p].resolved) : proc[p].resolved[i] # "failed"

\* C5: every category a run has finished has flushed the manifest once if it
\* committed an item and not at all otherwise.
C5_FlushRule ==
    \A p \in Procs : \A c \in 1..Len(proc[p].catLog) :
        proc[p].catLog[c].flushCalls = (IF proc[p].catLog[c].commits > 0 THEN 1 ELSE 0)

\* C6: an item committed by two runs is written to two distinct output keys.
C6_SameItemDistinctKeys ==
    \A p \in Procs, q \in Procs :
        p # q =>
            \A i \in DOMAIN proc[p].outKeys \cap DOMAIN proc[q].outKeys :
                proc[p].outKeys[i] # proc[q].outKeys[i]

\* C7: two distinct items committed by one run are written to distinct
\* output keys.
C7_DistinctItemsDistinctKeys ==
    \A p \in Procs :
        \A i \in DOMAIN proc[p].outKeys, j \in DOMAIN proc[p].outKeys :
            i # j => proc[p].outKeys[i] # proc[p].outKeys[j]

\* C8, in every step: a read that finds a zero-row dataset writes no data
\* file and no sidecar, records nothing, does not end the run, and the
\* category goes on with its next candidate (the sheet's with the tables).
C8_EmptyStep ==
    step'.read = "empty" =>
        LET p == step'.p IN
        /\ dataFiles' = dataFiles /\ sidecars' = sidecars /\ manifestDoc' = manifestDoc
        /\ proc'[p].processed = proc[p].processed
        /\ step'.item \notin DOMAIN proc'[p].processed
        /\ IF proc[p].cat = SheetCat
           THEN proc'[p].phase = "begin" /\ proc'[p].cat = PgCat
           ELSE /\ proc'[p].phase = "loop"
                /\ proc'[p].objects = proc[p].objects
                /\ proc'[p].idx = proc[p].idx + 1

\* C8, in every state: a candidate is skipped as already processed only if
\* a data file of it has been written.
C8_SkippedOnlyIfWritten ==
    \A p \in Procs : \A i \in 1..Len(proc[p].resolved) :
        proc[p].resolved[i] = "skipped" =>
            ItemOf(proc[p].cat, proc[p].objects[i]) \in uploads.data

\* C8: a zero-row dataset produces no data file, no sidecar and no manifest
\* entry, does not raise and does not stop the remaining items; a later run
\* that finds data at the identifier is not blocked by the manifest.
C8_EmptyDataset == [][C8_EmptyStep]_vars /\ []C8_SkippedOnlyIfWritten

\* C8's case: the first run found table t1 empty and the second commits it.
C8_Witness ==
    /\ Len(proc[1].catLog) = PgCat
    /\ proc[1].catLog[PgCat].resolved[1] = "empty"
    /\ proc[2].cat = PgCat
    /\ Len(proc[2].resolved) >= 1
    /\ proc[2].resolved[1] = "committed"

\* C9: after a call of write_parquet_to_s3_atomic that returned or raised,
\* the scratch file the call created is not in the scratch directory.
C9_ScratchCleanup ==
    step.write \in {"return", "raise"} => step.tmp \notin tmpFiles

\* C10: an object-store read that fails on malformed content is attempted
\* once.
C10_PermanentNotRetried ==
    (step.item # <<>> /\ step.item[1] = "s3"
        /\ step.content = "malformed" /\ step.read = "raise")
    => step.attempts = 1

\* C11, in every step: a read of an object or of a table makes between one
\* and five calls; when every call failed the item gets no data file, no
\* sidecar and no manifest entry and the loop is at its next candidate; when
\* a call succeeded the chain runs once: at most one data file and one
\* sidecar are written, and exactly one of each, with one manifest entry,
\* when the write returned.
C11_RetryStep ==
    (step'.p # 0 /\ step'.read # "none" /\ step'.item[1] \in {"s3", "postgres"}) =>
        LET p == step'.p IN
        /\ step'.attempts >= 1 /\ step'.attempts <= 5
        /\ step'.read = "raise" =>
              /\ dataFiles' = dataFiles /\ sidecars' = sidecars
              /\ manifestDoc' = manifestDoc
              /\ proc'[p].processed = proc[p].processed
              /\ step'.item \notin DOMAIN proc'[p].processed
              /\ proc'[p].phase = "loop"
              /\ proc'[p].objects = proc[p].objects
              /\ proc'[p].idx = proc[p].idx + 1
        /\ step'.read = "rows" =>
              /\ proc'[p].writes.data <= proc[p].writes.data + 1
              /\ proc'[p].writes.side <= proc[p].writes.side + 1
              /\ step'.write = "return" =>
                    /\ proc'[p].writes.data = proc[p].writes.data + 1
                    /\ proc'[p].writes.side = proc[p].writes.side + 1
                    /\ proc'[p].commits = proc[p].commits + 1
                    /\ DOMAIN proc'[p].processed =
                           DOMAIN proc[p].processed \cup {step'.item}

ItemsRead(p) ==
    {c \in 1..Len(proc[p].catLog) :
        \E i \in 1..Len(proc[p].catLog[c].resolved) :
            proc[p].catLog[c].resolved[i] \in {"committed", "empty", "failed"}}

\* C12: when the database credentials or the service-account file cannot be
\* read, the run has read no source item, written no data file and no sidecar,
\* and has not flushed the manifest.
C12_ConfigFatalAtStartup ==
    step.raised = "creds" =>
        /\ ItemsRead(step.p) = {}
        /\ proc[step.p].writes = NoWrites
        /\ \A c \in 1..Len(proc[step.p].catLog) : proc[step.p].catLog[c].flushCalls = 0

\* C13: after a call of write_processed_manifest that did not write the
\* document, what the caller got back differs from what a call that writes it
\* returns, and the data files the run committed are in the raw bucket.
C13_FlushFailureSurfaced ==
    \A p \in Procs :
        ~proc[p].flushOk =>
            /\ proc[p].flushRet #
                  WriteProcessedManifest(manifestDoc, manifestExists,
                                         proc[p].processed, TRUE).ret
            /\ \A i \in DOMAIN proc[p].outKeys : proc[p].outKeys[i] \in DOMAIN dataFiles

\* C14, in every step: a manifest read that finds no document, or raises,
\* gives the category an empty manifest and the category enters its loop
\* (unless the credentials read that follows it raises).
C14_LoadStep ==
    (step'.load \in {"missing", "raise"} /\ step'.raised = "none") =>
        LET p == step'.p IN
        /\ proc'[p].phase = "loop"
        /\ proc'[p].idx = 1
        /\ proc'[p].loaded = Empty
        /\ proc'[p].processed = Empty

\* C14, in every state: with an empty manifest read, no candidate is
\* skipped as already processed on the strength of the manifest; the only
\* candidate skipped is one the same loop has itself committed before (a
\* table named twice).
C14_NothingSkipped ==
    \A p \in Procs :
        (proc[p].phase = "loop" /\ proc[p].loaded = Empty) =>
            \A i \in 1..Len(proc[p].resolved) :
                proc[p].resolved[i] = "skipped" =>
                    \E j \in 1..(i - 1) :
                        /\ proc[p].objects[j] = proc[p].objects[i]
                        /\ proc[p].resolved[j] = "committed"

\* C14: a failed manifest load does not abort the run; the manifest is empty
\* both when the document is missing and when its read fails, and every
\* candidate is then treated as not yet committed.
C14_FailedLoadIsEmpty == [][C14_LoadStep]_vars /\ []C14_NothingSkipped

\* C14's case: a category whose manifest read gave an empty manifest has
\* committed again an item that is in the durable manifest.
C14_Witness ==
    \E p \in Procs :
        /\ proc[p].phase = "loop"
        /\ proc[p].loaded = Empty
        /\ manifestDoc # Empty
        /\ \E i \in 1..Len(proc[p].resolved) :
              /\ proc[p].resolved[i] = "committed"
              /\ ItemOf(proc[p].cat, proc[p].objects[i]) \in DOMAIN manifestDoc

\* The items run p committed in the category it crashed in: they are in its
\* in-memory manifest and were never flushed.
Unflushed(p) ==
    IF proc[p].phase = "crashed" /\ proc[p].idx >= 1
    THEN DOMAIN proc[p].processed \ DOMAIN proc[p].loaded
    ELSE {}

\* C15: when the first run has crashed with items committed and not flushed,
\* and nothing else failed or changed, every such item the second run commits
\* gets a key other than its first key, and the first data file is not
\* overwritten; when the second run is done, the items both runs committed are
\* exactly the unflushed ones.
C15_CrashGap ==
    (proc[1].phase = "crashed" /\ faults = 0 /\ changes = 0 /\ Odd(src) = {}) =>
        /\ \A item \in Unflushed(1) \cap DOMAIN proc[2].outKeys :
              /\ proc[2].outKeys[item] # proc[1].outKeys[item]
              /\ proc[1].outKeys[item] \notin overwritten
        /\ proc[2].phase = "done" =>
              DOMAIN proc[2].outKeys \cap DOMAIN proc[1].outKeys = Unflushed(1)

\* Some run started while another was under way.
Overlapped == \E p \in Procs : proc[p].overlapped

RECURSIVE FlushCallsIn(_, _)
\* The write_processed_manifest calls of the first n categories of a log.
FlushCallsIn(log, n) ==
    IF n = 0 THEN 0 ELSE log[n].flushCalls + FlushCallsIn(log, n - 1)

\* Every call of write_processed_manifest so far has written the document.
NoFlushFailure ==
    \A p \in Procs :
        FlushCallsIn(proc[p].catLog, Len(proc[p].catLog)) = proc[p].writes.flush

\* C16, in every step: as long as no run has overlapped another and no flush
\* has failed, an identifier of the durable manifest stays in it.
C16_NoLossStep ==
    (~Overlapped' /\ NoFlushFailure') =>
        \A id \in DOMAIN manifestDoc : id \in DOMAIN manifestDoc'

\* C16: with at most one run active at a time and no flush failure, no
\* committed entry is ever lost.
C16_SequentialRunsLoseNothing == [][C16_NoLossStep]_vars

\* C16's case, the lost update: with no failure and no crash, two overlapping
\* runs have each flushed; one is done and an item it committed and flushed is
\* no longer in the durable manifest, which holds another item, committed by
\* the other run.
C16_Witness ==
    /\ Overlapped /\ faults = 0 /\ crashes = 0
    /\ \E p \in Procs, q \in Procs :
          /\ p # q
          /\ proc[p].phase = "done"
          /\ proc[q].writes.flush >= 1
          /\ \E i \in DOMAIN proc[p].outKeys : i \notin DOMAIN manifestDoc
          /\ \E j \in DOMAIN proc[q].outKeys :
                j \in DOMAIN manifestDoc /\ j \notin DOMAIN proc[p].outKeys

\* C20, in every step: every entry of the durable manifest is in it after
\* the step, with the same metadata.
C20_EntryKept ==
    \A id \in DOMAIN manifestDoc :
        id \in DOMAIN manifestDoc' /\ manifestDoc'[id] = manifestDoc[id]

\* C20: no flush of a run removes or changes an entry of the durable
\* manifest, whether the run's manifest read succeeded or degraded to an empty
\* manifest, and whether or not the category committed anything.
C20_DurableEntriesKept == [][C20_EntryKept]_vars

\* The characters of lowercase letters, digits and the underscore.
CanonicalChars == Digits \cup {LowerAlpha[i] : i \in 1..26} \cup {"_"}

\* C17: the result of normalize_column_name holds only lowercase letters,
\* digits and underscores, no two underscores in a row; normalizing the result
\* again gives the result; "Customer ID" gives "customer_id".
C17_NormalizeIdempotent ==
    (calc.fn = "normalize_column_name" /\ Len(calc.outs) >= 1) =>
        LET out == calc.outs[1] IN
        /\ \A i \in 1..Len(out) : out[i] \in CanonicalChars
        /\ \A i \in 1..(Len(out) - 1) : ~(out[i] = "_" /\ out[i + 1] = "_")
        /\ Len(calc.outs) = 2 => calc.outs[2] = out
        /\ calc.in = CustomerID =>
              out = <<"c","u","s","t","o","m","e","r","_","i","d">>

\* C17's case: a name with a symbol between two separators has been
\* normalized twice.
C17_Witness ==
    /\ calc.fn = "normalize_column_name"
    /\ calc.in = <<"-", "$", " ">>
    /\ Len(calc.outs) = 2

\* Two dataframes have the same ordered (column name, column type) pairs.
SameSchema(a, b) == a.columns = b.columns /\ a.dtypes = b.dtypes

\* Two dataframes have the same column types and the same column names but
\* for one column.
DifferInOneName(a, b) ==
    /\ Len(a.columns) = Len(b.columns)
    /\ a.dtypes = b.dtypes
    /\ Cardinality({i \in 1..Len(a.columns) : a.columns[i] # b.columns[i]}) = 1

\* C18: two dataframes with the same ordered (name, type) pairs have the same
\* hash_df_schema, whatever their rows; two dataframes of canonical column
\* names that differ in one column's name have different ones.
C18_FingerprintStable ==
    (calc.fn = "hash_df_schema" /\ calc.done) =>
        /\ SameSchema(calc.a, calc.b) => calc.ha = calc.hb
        /\ DifferInOneName(calc.a, calc.b) => calc.ha # calc.hb

\* C18's case: two dataframes of two columns with the same schema and
\* different rows have been hashed.
C18_Witness ==
    /\ calc.fn = "hash_df_schema"
    /\ calc.done
    /\ Len(calc.a.columns) = 2
    /\ SameSchema(calc.a, calc.b)
    /\ calc.a.rows # calc.b.rows

\* A cell is null, or a str that is trimmed, lowercase and matches the pattern.
CleanCell(v) ==
    \/ v = None
    \/ /\ v.kind = "str"
       /\ Strip(v.text) = v.text
       /\ Lower(v.text) = v.text
       /\ EmailRegexMatch(v.text)

\* C19: after the email step on a dataframe whose normalized columns have
\* `email`, the dataframe has an `email_raw` column with the original values
\* row by row, every `email` cell is null or a trimmed, lowercase str that
\* matches the pattern, and a cell that was not a str, or was
\* "not-an-email", is null.
C19_EmailHygiene ==
    (calc.fn = "email_hygiene" /\ calc.done
        /\ NormalizeColumnName(calc.df.columns[1]) = EmailName) =>
        LET out == calc.out
            orig == calc.df.data[1]
        IN  /\ out.columns = <<EmailName, EmailRawName>>
            /\ out.data[2] = orig
            /\ \A r \in 1..Len(orig) :
                  /\ CleanCell(out.data[1][r])
                  /\ orig[r].kind # "str" => out.data[1][r] = None
                  /\ orig[r] = Str(NotAnEmail) => out.data[1][r] = None

\* ---------------------------------------------------------------- C21

\* The step was a call of write_parquet_to_s3_atomic that uploaded the data
\* file and ended, by an exception or the death of the process, before the
\* sidecar was put.
BetweenUploads == step'.key # <<>> /\ ~step'.sidecar

\* The two uploads are in order: no sidecar without its data file.
C21_SidecarOnlyWithData == DOMAIN sidecars \subseteq DOMAIN dataFiles

\* A call that ended between the two uploads leaves the data file at its key,
\* no sidecar at that key, and adds no manifest entry; a call returns only
\* when both objects of its item are in the bucket.
C21_WriteStep ==
    /\ BetweenUploads =>
          /\ step'.write \in {"raise", "crash"}
          /\ step'.key \in DOMAIN dataFiles'
          /\ step'.key \notin DOMAIN sidecars'
          /\ proc'[step'.p].processed = proc[step'.p].processed
          /\ manifestDoc' = manifestDoc
    /\ step'.write = "return" =>
          /\ step'.key \in DOMAIN dataFiles' /\ dataFiles'[step'.key] = step'.item
          /\ step'.sidecar
          /\ step'.key \in DOMAIN sidecars'
          /\ sidecars'[step'.key].source_path = step'.item

\* C21: the data file is uploaded before the sidecar, so a sidecar exists
\* only if the data file at its key exists; a failure or crash between the
\* two uploads leaves a data file without a sidecar and without a manifest
\* entry; the function returns only after both uploads succeeded.
C21_TwoStepWrite == []C21_SidecarOnlyWithData /\ [][C21_WriteStep]_vars

\* A call has ended between the two uploads, and the data file it uploaded
\* is in the bucket.
C21_Witness ==
    /\ step.key # <<>> /\ ~step.sidecar
    /\ step.write \in {"raise", "crash"}
    /\ step.key \in DOMAIN dataFiles

\* ---------------------------------------------------------------- C22

\* The step assigned processed[id] in run p (lines 334, 377, 419).
Assigns(p, id) == step'.p = p /\ step'.item = id /\ step'.write = "return"

\* C22: a manifest entry is never overwritten in the default flow: within a
\* run, processed[id] is assigned only when id is not already in the
\* in-memory manifest, every entry the dict holds keeps its value, and each
\* source identifier is committed at most once per run, including when the
\* Postgres table list names the same table twice.
C22_NoEntryOverwritten ==
    [][\A p \in Procs :
          /\ \A id \in Items : Assigns(p, id) =>
                /\ id \notin DOMAIN proc[p].processed
                /\ id \notin DOMAIN proc[p].outKeys
                /\ id \in DOMAIN proc'[p].processed
          /\ proc[p].phase = "loop" =>
                \A id \in DOMAIN proc[p].processed :
                    /\ id \in DOMAIN proc'[p].processed
                    /\ proc'[p].processed[id] = proc[p].processed[id]]_vars

\* The table list names one table twice: the first is committed, the second
\* is skipped as already in the in-memory manifest.
C22_Witness ==
    \E p \in Procs :
        /\ table_names = <<T1, T1>>
        /\ proc[p].cat = PgCat
        /\ proc[p].resolved = <<"committed", "skipped">>
        /\ PgIdentifier(PgHostDb, T1) \in DOMAIN proc[p].processed

\* ---------------------------------------------------------------- C23

\* The three days of the artifact a step has committed: of the date=
\* partition of its key, of the key's suffix, of load_time_utc in the record
\* the run has assigned to the item.
KeyDay(key) == key[2]
SuffixDay(key) == StampDay(key[4])
RecordDay(md) == LoadDay(md.load_time_utc)

C23_CommitStep ==
    step'.write = "return" =>
        LET key == step'.key
            md == proc'[step'.p].processed[step'.item]
        IN  /\ KeyDay(key) = SuffixDay(key)
            /\ KeyDay(key) = RecordDay(md)

\* C23: for every committed artifact, the day of the date= partition of its
\* output key, the day of the key's timestamp suffix and the day of
\* load_time_utc in its commit record are the same day, whenever the item is
\* processed, also across midnight UTC.
C23_OneDayPerItem == [][C23_CommitStep]_vars

\* An item was committed while the clock crossed midnight: the record's load
\* time is of the day before the key's partition.
C23_Witness ==
    /\ step.write = "return"
    /\ step.item \in DOMAIN proc[step.p].processed
    /\ RecordDay(proc[step.p].processed[step.item]) < KeyDay(step.key)
    /\ step.key \in DOMAIN dataFiles

\* ---------------------------------------------------------------- C24

\* The categories processed by a for loop.
LoopCats == S3Cats \cup {PgCat}

\* How a candidate can be resolved ("filtered" is the skip of lines 289-292,
\* "skipped" that of lines 294-296 and 387-389).
Resolutions == {"filtered", "skipped", "empty", "failed", "committed"}

\* In every state of a loop: the candidates before the one the loop is at
\* are resolved, each once and in listing order.
C24_LoopState ==
    \A p \in Procs :
        (proc[p].phase = "loop" /\ proc[p].cat \in LoopCats) =>
            /\ proc[p].idx \in 1..(Len(proc[p].objects) + 1)
            /\ Len(proc[p].resolved) = proc[p].idx - 1
            /\ \A i \in 1..Len(proc[p].resolved) : proc[p].resolved[i] \in Resolutions

\* How the step's outcome resolves the candidate.
ResolutionOf(st) ==
    CASE st.write = "return" -> {"committed"}
      [] st.write = "raise" -> {"failed"}
      [] st.write = "none" /\ st.read = "raise" -> {"failed"}
      [] st.write = "none" /\ st.read = "empty" -> {"empty"}
      [] OTHER -> {"filtered", "skipped"}

\* In every step of a loop: either one candidate, the one the loop is at, is
\* resolved by its outcome and the loop moves to the next one; or the process
\* dies; or the list is exhausted, every candidate has been resolved, and
\* the category makes its flush decision and ends.
C24_LoopStep ==
    \A p \in Procs :
        (proc[p].phase = "loop" /\ proc[p].cat \in LoopCats /\ proc'[p] # proc[p]) =>
            \/ /\ proc[p].idx <= Len(proc[p].objects)
               /\ proc'[p].phase = "loop" /\ proc'[p].cat = proc[p].cat
               /\ proc'[p].objects = proc[p].objects
               /\ proc'[p].idx = proc[p].idx + 1
               /\ \E r \in ResolutionOf(step') :
                     proc'[p].resolved = Append(proc[p].resolved, r)
            \/ /\ proc'[p].phase = "crashed"
               /\ proc'[p].resolved = proc[p].resolved
               /\ proc'[p].idx = proc[p].idx
            \/ /\ proc[p].idx = Len(proc[p].objects) + 1
               /\ Len(proc[p].resolved) = Len(proc[p].objects)
               /\ proc'[p].phase \in {"begin", "done"}
               /\ Len(proc'[p].catLog) = proc[p].cat
               /\ proc'[p].catLog[proc[p].cat].resolved = proc[p].resolved
               /\ proc'[p].flushCalls \in {proc[p].flushCalls, proc[p].flushCalls + 1}

\* A loop that has started ends, with its flush decision made, unless the
\* process dies.
InLoop == \E p \in Procs : Looping(p)

C24_LoopEnds == InLoop ~> ~InLoop

\* C24: for every candidate list and every combination of per-item outcomes,
\* process_s3_prefix and process_postgres_tables resolve every candidate
\* exactly once, in listing order, start an item only after the previous one
\* is resolved, then reach the flush decision; the category always terminates.
C24_CategoryProgress == []C24_LoopState /\ [][C24_LoopStep]_vars /\ C24_LoopEnds

\* A run has finished the customers loop with one candidate failed and the
\* next committed, and the call-logs loop with its candidate filtered out.
C24_Witness ==
    \E p \in Procs :
        /\ Len(proc[p].catLog) >= 2
        /\ proc[p].catLog[1].resolved = <<"failed", "committed">>
        /\ proc[p].catLog[2].resolved = <<"filtered">>

\* ---------------------------------------------------------------- C25

\* ceil(n / c)
Ceil(n, c) == (n + c - 1) \div c

\* The call is over: it has returned or an exception has left it.
LoadOver == calc.fn = "dataframe_to_supabase" /\ calc.phase \in {"returned", "raised"}

\* The batches sent are those of the claim: ceil(n/c) of them, none empty and
\* none of more than c rows, and together they are the rows, in row order,
\* each once.
AllBatchesSent ==
    /\ Len(calc.sent) = Ceil(calc.df.rows, calc.chunk_size)
    /\ \A k \in 1..Len(calc.sent) : Len(calc.sent[k]) \in 1..calc.chunk_size
    /\ Concat(calc.sent) = [r \in 1..calc.df.rows |-> r]

\* C25: for every non-empty dataset of n rows and chunk size c,
\* dataframe_to_supabase sends ceil(n/c) batches of at most c rows each, in
\* row order, every row in exactly one batch; a batch that meets an error
\* does not prevent the following batches from being sent; an empty dataset
\* sends no batch.
C25_LoadBatching ==
    LoadOver =>
        IF DfEmpty(calc.df) THEN calc.sent = <<>> ELSE AllBatchesSent

\* A call has returned after a batch whose response reported an error, with
\* the batches after it sent.
C25_Witness ==
    /\ calc.fn = "dataframe_to_supabase"
    /\ calc.phase = "returned"
    /\ Len(calc.sent) >= 3
    /\ calc.responses[1] = "error"
    /\ AllBatchesSent
====
